---- MODULE Spec2Model ----
(***************************************************************************)
(* Pinceau: sentence finder / grouper / clip slicer.                       *)
(*                                                                         *)
(* The repository holds several one-shot scripts.  Each script is modelled *)
(* as its own state machine over a shared set of variables:                *)
(*                                                                         *)
(*   SpecSlicer        slicer.py             main (keyframes, cut, concat) *)
(*   SpecFindref       findref.py            main (substring matcher)      *)
(*   SpecFindrefCopy   config_transcribe.py  "findref copy" main           *)
(*   SpecFindrefSingle config_transcribe.py  "findref single" main         *)
(*                                                                         *)
(* Time is counted in ticks of 0.05 s (0.7 s = 14 ticks).  Every timestamp *)
(* of the model is a whole number of ticks, so the "%.3f" formatting of    *)
(* slicer.py is exact on it.  In the "findref copy" script absolute times  *)
(* are entry_start + character offset, as the code computes them.          *)
(*                                                                         *)
(* Strings are sequences of one-character strings; " " is the only         *)
(* whitespace and "." the only sentence-ending punctuation of the model.   *)
(***************************************************************************)
EXTENDS Integers, Sequences, FiniteSets, TLC

VARIABLES
    pc,             \* position of the running script
    log,            \* messages printed so far (warnings, notices)
    \* ---- slicer.py
    procJson,       \* processing/<input>/<input>.json is a file
    entries,        \* the matched-groups list read from it
    present,        \* the video paths that exist on disk
    silence,        \* config_transcribe.SILENCE_BETWEEN_CLIPS_S, in ticks
    video_times,    \* dict video_path -> [start, ...], in insertion order
    tmp,            \* the temporary workspace: "none", "exists", "removed"
    keyed_map,      \* dict src -> keyed copy
    kidx,           \* position in video_times.items()
    idx,            \* position in enumerate(entries)
    cuts,           \* clips cut so far
    calls,          \* external encoder invocations made so far
    finished,       \* the final "Finished" line was printed
    \* ---- the findref scripts: inputs
    json_files,     \* the transcript files found (findref.py: files)
    text,           \* args.text: the -t paragraphs
    gap,            \* config_findref.GROUP_GAP_S / ROUNDNESS_MS
    fidx,           \* position in the loop over the files
    \* ---- findref.py
    S,              \* the sentence set, in its iteration order
    hits,           \* the matches found, one per segment
    cur,            \* the group being built by the sweep
    curSeed,        \* index of the hit whose "sentences" list cur shares
    curMembers,     \* indices (in the sorted hits) of the hits merged in cur
    midx,           \* position of the sweep in hits
    out,            \* the closed groups
    outMembers,     \* for each closed group, the hits merged in it
    written,        \* the JSON document written, or "none"
    \* ---- config_transcribe.py: "findref copy" and "findref single"
    sentences,      \* the query sentences, in list order
    eidx,           \* position in the loop over the entries of a file
    results,        \* the result records appended so far
    sweeps          \* per processed entry: its sorted matches and their groups

slicerVars == <<procJson, entries, present, silence, video_times, tmp,
                keyed_map, kidx, idx, cuts, calls, finished>>

inputVars == <<json_files, text, gap>>

findrefVars == <<S, hits, cur, curSeed, curMembers, midx, out, outMembers>>

copyVars == <<sentences, eidx, results, sweeps>>

vars == <<pc, log, slicerVars, inputVars, fidx, findrefVars, written, copyVars>>

----------------------------------------------------------------------------
(* Bounds and input domains *)

MaxEntries == 2

DefaultSilence == 14

SilenceTargets == {0, 6, DefaultSilence}

Folders == {"a_files", "a", "b_files"}

EntryTimes == {0, 4, 10, 12}

MaxFiles == 2

MaxSegments == 2

GapChoices == {1, 14}

----------------------------------------------------------------------------
(* Generic helpers *)

Max(a, b) == IF a >= b THEN a ELSE b

Range(s) == {s[i] : i \in 1..Len(s)}

SeqsUpTo(dom, n) == UNION {[1..k -> dom] : k \in 0..n}

----------------------------------------------------------------------------
(* slicer.py *)

\* fld[:-6] if fld.endswith("_files") else fld
Base(fld) ==
    CASE fld = "a_files" -> "a"
      [] fld = "b_files" -> "b"
      [] OTHER           -> fld

\* os.path.join(fld, f"{base}.mp4")
VideoPath(fld) == <<fld, Base(fld)>>

\* os.path.join(keyed_dir, f"{base}.mp4"), base = basename of src without .mp4
KeyedPath(src) == <<"keyed", src[2]>>

Entries == [folder : Folders,
            start  : EntryTimes,
            end    : EntryTimes]

DictKeys(d) == {d[i][1] : i \in 1..Len(d)}

\* video_times.setdefault(video_path, []).append(t)
DictAppend(d, k, t) ==
    IF k \in DictKeys(d)
    THEN [i \in 1..Len(d) |->
            IF d[i][1] = k THEN <<k, Append(d[i][2], t)>> ELSE d[i]]
    ELSE Append(d, <<k, <<t>>>>)

\* step 2: the loop collecting each unique video and its start times;
\* returns the dict and the warnings printed
RECURSIVE CollectVideoTimes(_, _, _, _)
CollectVideoTimes(es, onDisk, d, warns) ==
    IF es = <<>> THEN <<d, warns>>
    ELSE LET e == Head(es)
             video_path == VideoPath(e.folder)
         IN  IF video_path \notin onDisk
             THEN CollectVideoTimes(Tail(es), onDisk, d,
                      Append(warns, [msg |-> "Video missing", path |-> video_path]))
             ELSE CollectVideoTimes(Tail(es), onDisk,
                      DictAppend(d, video_path, e.start), warns)

\* half_sil = SILENCE_BETWEEN_CLIPS_S / 2.0
HalfSil(s) == s \div 2

CutStartNoFloor(st, half_sil) == st - half_sil

\* cs = max(0.0, st - half_sil)
CutStart(st, half_sil) == Max(0, st - half_sil)

\* ce = en + half_sil
CutEnd(en, half_sil) == en + half_sil

\* keyed_map.get(orig, orig)
CutSource(km, orig) == IF orig \in DOMAIN km THEN km[orig] ELSE orig

AfterCallUnchecked(ok, next) == next

\* subprocess.run(cmd, check=True): a non-zero exit raises CalledProcessError,
\* which nothing catches, so the script dies with a traceback
AfterCall(ok, next) == IF ok THEN next ELSE "crashed"

\* the files the encoder can read: the videos on disk and the keyed copies
\* written by successful force_keyframes calls
Readable(onDisk, cs) ==
    onDisk \cup {cs[i].dst : i \in {j \in 1..Len(cs) : cs[j].op = "keyframes" /\ cs[j].ok}}

SlicerIdle ==
    /\ procJson = FALSE
    /\ entries = <<>>
    /\ present = {}
    /\ silence = 0
    /\ video_times = <<>>
    /\ tmp = "none"
    /\ keyed_map = <<>>
    /\ kidx = 1
    /\ idx = 1
    /\ cuts = <<>>
    /\ calls = <<>>
    /\ finished = FALSE

InputsIdle ==
    /\ json_files = <<>>
    /\ text = <<>>
    /\ gap = 0
    /\ fidx = 1
    /\ written = "none"

FindrefIdle ==
    /\ S = <<>>
    /\ hits = <<>>
    /\ cur = "none"
    /\ curSeed = 0
    /\ curMembers = {}
    /\ midx = 1
    /\ out = <<>>
    /\ outMembers = <<>>

CopyIdle ==
    /\ sentences = <<>>
    /\ eidx = 1
    /\ results = <<>>
    /\ sweeps = <<>>

\* slicer.py reads and writes nothing of the findref scripts' state
SlicerFrame == UNCHANGED <<inputVars, fidx, findrefVars, written, copyVars>>

InitSlicer ==
    /\ InputsIdle
    /\ FindrefIdle
    /\ CopyIdle
    /\ pc = "load"
    /\ log = <<>>
    /\ procJson \in BOOLEAN
    /\ entries \in SeqsUpTo(Entries, MaxEntries)
    /\ procJson = FALSE => entries = <<>>
    \* a group spans at least one sentence: it ends after it starts
    /\ \A i \in 1..Len(entries) : entries[i].start < entries[i].end
    /\ present \in SUBSET {VideoPath(f) : f \in Folders}
    /\ present \subseteq {VideoPath(entries[i].folder) : i \in 1..Len(entries)}
    /\ silence \in SilenceTargets
    /\ video_times = <<>>
    /\ tmp = "none"
    /\ keyed_map = <<>>
    /\ kidx = 1
    /\ idx = 1
    /\ cuts = <<>>
    /\ calls = <<>>
    /\ finished = FALSE

\* 1) load findref JSON
SlLoad ==
    /\ pc = "load"
    /\ SlicerFrame
    /\ pc' = IF ~procJson THEN "exit_nojson"
             ELSE IF entries = <<>> THEN "exit_empty"
             ELSE "collect"
    /\ log' = IF ~procJson THEN Append(log, [msg |-> "Error: JSON not found"])
              ELSE IF entries = <<>> THEN Append(log, [msg |-> "No segments found"])
              ELSE log
    /\ UNCHANGED slicerVars

\* 2) collect each unique video and its sentence-start times
SlCollect ==
    /\ pc = "collect"
    /\ SlicerFrame
    /\ LET r == CollectVideoTimes(entries, present, <<>>, <<>>)
       IN  /\ video_times' = r[1]
           /\ log' = log \o r[2]
    /\ pc' = "mktemp"
    /\ UNCHANGED <<procJson, entries, present, silence, tmp, keyed_map,
                   kidx, idx, cuts, calls, finished>>

\* 3) set up temp workspace
SlMkTemp ==
    /\ pc = "mktemp"
    /\ SlicerFrame
    /\ tmp' = "exists"
    /\ pc' = "keyframes"
    /\ UNCHANGED <<log, procJson, entries, present, silence, video_times,
                   keyed_map, kidx, idx, cuts, calls, finished>>

\* 4) force keyframes in each source video (one loop iteration)
SlForceKeyframes ==
    /\ pc = "keyframes"
    /\ SlicerFrame
    /\ kidx <= Len(video_times)
    /\ \E ok \in BOOLEAN :
         LET src   == video_times[kidx][1]
             times == video_times[kidx][2]
             dst   == KeyedPath(src)
         IN  /\ calls' = Append(calls, [op |-> "keyframes", src |-> src,
                                        orig |-> src, times |-> Range(times),
                                        dst |-> dst, ok |-> ok])
             /\ keyed_map' = IF ok THEN (src :> dst) @@ keyed_map ELSE keyed_map
             /\ kidx' = IF ok THEN kidx + 1 ELSE kidx
             /\ pc' = AfterCall(ok, "keyframes")
    /\ UNCHANGED <<log, procJson, entries, present, silence, video_times,
                   tmp, idx, cuts, finished>>

\* 5) prepare output
SlPrepareOutput ==
    /\ pc = "keyframes"
    /\ SlicerFrame
    /\ kidx > Len(video_times)
    /\ pc' = "cut"
    /\ UNCHANGED <<log, slicerVars>>

\* 6) cut each segment (one loop iteration)
SlCut ==
    /\ pc = "cut"
    /\ SlicerFrame
    /\ idx <= Len(entries)
    /\ \E ok \in BOOLEAN :
         LET e        == entries[idx]
             orig     == VideoPath(e.folder)
             src      == CutSource(keyed_map, orig)
             half_sil == HalfSil(silence)
             cs       == CutStart(e.start, half_sil)
             ce       == CutEnd(e.end, half_sil)
             out_clip == idx - 1
         IN  \* the encoder cannot succeed on an input file that is not there
             /\ ok => src \in Readable(present, calls)
             /\ calls' = Append(calls, [op |-> "cut", src |-> src, orig |-> orig,
                                        entry |-> idx, cs |-> cs, ce |-> ce,
                                        dst |-> out_clip, ok |-> ok])
             /\ cuts' = IF ok THEN Append(cuts, out_clip) ELSE cuts
             /\ idx' = IF ok THEN idx + 1 ELSE idx
             /\ pc' = AfterCall(ok, "cut")
    /\ UNCHANGED <<log, procJson, entries, present, silence, video_times,
                   tmp, keyed_map, kidx, finished>>

\* if not cuts: rmtree and exit; else 7) write the concat list
SlAfterCuts ==
    /\ pc = "cut"
    /\ SlicerFrame
    /\ idx > Len(entries)
    /\ IF cuts = <<>>
       THEN /\ tmp' = "removed"
            /\ log' = Append(log, [msg |-> "No cuts were made"])
            /\ pc' = "exit_nocuts"
       ELSE /\ tmp' = tmp
            /\ log' = log
            /\ pc' = "concat"
    /\ UNCHANGED <<procJson, entries, present, silence, video_times,
                   keyed_map, kidx, idx, cuts, calls, finished>>

\* 7) concatenate all clips, remove the workspace, report
SlConcat ==
    /\ pc = "concat"
    /\ SlicerFrame
    /\ \E ok \in BOOLEAN :
         /\ calls' = Append(calls, [op |-> "concat", list |-> cuts, ok |-> ok])
         /\ tmp' = IF ok THEN "removed" ELSE tmp
         /\ finished' = ok
         /\ pc' = AfterCall(ok, "done")
    /\ UNCHANGED <<log, procJson, entries, present, silence, video_times,
                   keyed_map, kidx, idx, cuts>>

NextSlicer ==
    \/ SlLoad
    \/ SlCollect
    \/ SlMkTemp
    \/ SlForceKeyframes
    \/ SlPrepareOutput
    \/ SlCut
    \/ SlAfterCuts
    \/ SlConcat

SpecSlicer == InitSlicer /\ [][NextSlicer]_vars

SlicerTerminal == {"exit_nojson", "exit_empty", "exit_nocuts", "done", "crashed"}

----------------------------------------------------------------------------
(* Strings and the sentence splitter shared by the findref scripts *)

IsSpace(c) == c = " "

IsSentenceEnd(c) == c \in {".", "!", "?"}

RECURSIVE LStrip(_)
LStrip(t) == IF t # <<>> /\ IsSpace(Head(t)) THEN LStrip(Tail(t)) ELSE t

RECURSIVE RStrip(_)
RStrip(t) ==
    IF t # <<>> /\ IsSpace(t[Len(t)]) THEN RStrip(SubSeq(t, 1, Len(t) - 1)) ELSE t

\* str.strip()
Strip(t) == RStrip(LStrip(t))

\* text[a:b] for 0 <= a, 0 <= b (Python clamps both to len(text))
Slice(t, a, b) ==
    LET lo == IF a > Len(t) THEN Len(t) ELSE a
        hi == IF b > Len(t) THEN Len(t) ELSE b
    IN  IF lo >= hi THEN <<>> ELSE SubSeq(t, lo + 1, hi)

\* s in txt
IsSubstring(s, t) ==
    \E i \in 0..(Len(t) - Len(s)) : Slice(t, i, i + Len(s)) = s

\* re.split(r'(?<=[.!?])\s+', t): cut at every run of whitespace that
\* directly follows a sentence end; i is the next position to read, piece
\* the characters of the current piece, acc the pieces closed so far
RECURSIVE ReSplit(_, _, _, _)
ReSplit(t, i, piece, acc) ==
    IF i > Len(t) THEN Append(acc, piece)
    ELSE IF IsSpace(t[i]) /\ i > 1 /\ IsSentenceEnd(t[i-1])
         THEN LET rest == LStrip(SubSeq(t, i, Len(t)))
              IN  ReSplit(t, Len(t) - Len(rest) + 1, <<>>, Append(acc, piece))
         ELSE ReSplit(t, i + 1, Append(piece, t[i]), acc)

RECURSIVE StripEachNonEmpty(_)
StripEachNonEmpty(ps) ==
    IF ps = <<>> THEN <<>>
    ELSE IF Head(ps) = <<>> THEN StripEachNonEmpty(Tail(ps))
         ELSE <<Strip(Head(ps))>> \o StripEachNonEmpty(Tail(ps))

\* [s.strip() for s in re.split(r'(?<=[.!?])\s+', text.strip()) if s]
split_into_sentences(t) == StripEachNonEmpty(ReSplit(Strip(t), 1, <<>>, <<>>))

\* sentences = []; for block in args.text: sentences.extend(split(block))
RECURSIVE AllSentences(_)
AllSentences(blocks) ==
    IF blocks = <<>> THEN <<>>
    ELSE split_into_sentences(Head(blocks)) \o AllSentences(Tail(blocks))

\* the orders in which a set may be iterated
Orders(set) ==
    {q \in [1..Cardinality(set) -> set] : \A x \in set : \E i \in DOMAIN q : q[i] = x}

Str_a == <<"a", ".">>

Str_ab == <<"a", ".", " ", "b", ".">>

Str_xb == <<"x", " ", "b", ".">>

Str_x == <<"x">>

Str_pad_b == <<" ", "b", ".", " ">>

Str_bb_b == <<"b", ".", "b", ".", " ", "b", ".">>

Str_b_bar_bb == <<"b", ".", " ", "|", "b", ".", "b", ".">>

\* the -t paragraphs a run may be given
TextChoices == {<<Str_ab>>, <<Str_pad_b>>}

\* the identity (grandparent folder, file name) of the i-th transcript file
FileNames == <<[folder |-> "a_files", file |-> "a_sentence.json"],
               [folder |-> "b_files", file |-> "b_sentence.json"],
               [folder |-> "c_files", file |-> "c_sentence.json"]>>

----------------------------------------------------------------------------
(* findref.py *)

SegmentTexts == {Str_a, Str_xb, Str_x}

SegmentIntervals == {<<0, 10>>, <<2, 6>>, <<12, 20>>}

\* the transcript segments a file may hold: well-formed ones, one without
\* "text", and one with a matching text but no "end"
Segments ==
    {[text |-> t, start |-> iv[1], end |-> iv[2]] :
        t \in SegmentTexts, iv \in SegmentIntervals}
    \cup {[start |-> 0, end |-> 10]}
    \cup {[text |-> Str_a, start |-> 0]}

\* a transcript file: its JSON parses to data, or it is not valid JSON
FindrefFiles ==
    {[status |-> "ok", data |-> d] : d \in SeqsUpTo(Segments, MaxSegments)}
    \cup {[status |-> "invalid", data |-> <<>>]}

\* found = [s for s in S if s in txt]
RECURSIVE Found(_, _)
Found(order, txt) ==
    IF order = <<>> THEN <<>>
    ELSE (IF IsSubstring(Head(order), txt) THEN <<Head(order)>> ELSE <<>>)
         \o Found(Tail(order), txt)

\* the loop over the segments of one file: the hits appended, and whether a
\* KeyError (a missing "text", or a missing "start"/"end" of a matching
\* segment) ended the script
RECURSIVE ScanSegments(_, _, _, _)
ScanSegments(data, id, order, acc) ==
    IF data = <<>> THEN [hits |-> acc, crashed |-> FALSE]
    ELSE LET seg == Head(data)
         IN  IF "text" \notin DOMAIN seg THEN [hits |-> acc, crashed |-> TRUE]
             ELSE LET found == Found(order, seg.text)
                  IN  IF found = <<>> THEN ScanSegments(Tail(data), id, order, acc)
                      ELSE IF {"start", "end"} \subseteq DOMAIN seg
                           THEN ScanSegments(Tail(data), id, order,
                                    Append(acc, [folder    |-> id.folder,
                                                 file      |-> id.file,
                                                 start     |-> seg.start,
                                                 end       |-> seg.end,
                                                 sentences |-> found]))
                           ELSE [hits |-> acc, crashed |-> TRUE]

\* list.sort(key=lambda x: x["start"]) is stable: x goes after every element
\* whose start is <= its own
RECURSIVE InsertByStart(_, _)
InsertByStart(sorted, x) ==
    IF sorted = <<>> THEN <<x>>
    ELSE IF Head(sorted).start <= x.start
         THEN <<Head(sorted)>> \o InsertByStart(Tail(sorted), x)
         ELSE <<x>> \o sorted

RECURSIVE SortByStart(_)
SortByStart(q) ==
    IF q = <<>> THEN <<>>
    ELSE InsertByStart(SortByStart(SubSeq(q, 1, Len(q) - 1)), q[Len(q)])

\* nxt["start"] - cur["end"] <= GROUP_GAP_S
Close(nxt, c, g) == nxt.start - c.end <= g

\* the findref scripts read and write nothing of slicer.py's state
FindrefFrame == UNCHANGED <<slicerVars, copyVars>>

InitFindref ==
    /\ SlicerIdle
    /\ CopyIdle
    /\ pc = "fr_start"
    /\ log = <<>>
    /\ json_files \in SeqsUpTo(FindrefFiles, MaxFiles)
    /\ text \in TextChoices
    /\ gap \in GapChoices
    /\ fidx = 1
    /\ written = "none"
    /\ FindrefIdle

\* build the sentence set; gather the *_sentence.json files
FrStart ==
    /\ pc = "fr_start"
    /\ FindrefFrame
    /\ S' \in Orders(Range(AllSentences(text)))
    \* "if not files": the print names sys.stderr, and findref.py does not
    \* import sys, so this branch ends in a NameError
    /\ pc' = IF json_files = <<>> THEN "crashed" ELSE "fr_files"
    /\ UNCHANGED <<log, inputVars, fidx, hits, cur, curSeed, curMembers,
                   midx, out, outMembers, written>>

\* one iteration of "for path in files"
FrFile ==
    /\ pc = "fr_files"
    /\ FindrefFrame
    /\ fidx <= Len(json_files)
    /\ LET f == json_files[fidx]
           r == ScanSegments(f.data, FileNames[fidx], S, hits)
       IN  IF f.status # "ok"
           THEN \* json.load raises JSONDecodeError, which nothing catches
                /\ pc' = "crashed"
                /\ UNCHANGED <<hits, fidx>>
           ELSE /\ hits' = r.hits
                /\ pc' = IF r.crashed THEN "crashed" ELSE "fr_files"
                /\ fidx' = IF r.crashed THEN fidx ELSE fidx + 1
    /\ UNCHANGED <<log, inputVars, S, cur, curSeed, curMembers, midx, out,
                   outMembers, written>>

\* hits.sort(key=start); out = []; if hits: cur = hits[0].copy()
FrSort ==
    /\ pc = "fr_files"
    /\ FindrefFrame
    /\ fidx > Len(json_files)
    /\ hits' = SortByStart(hits)
    /\ out' = <<>>
    /\ outMembers' = <<>>
    /\ IF hits = <<>>
       THEN /\ pc' = "fr_write"
            /\ UNCHANGED <<cur, curSeed, curMembers, midx>>
       ELSE /\ pc' = "fr_merge"
            /\ cur' = hits'[1]
            /\ curSeed' = 1
            /\ curMembers' = {1}
            /\ midx' = 2
    /\ UNCHANGED <<log, inputVars, fidx, S, written>>

\* one iteration of "for nxt in hits[1:]"
FrMergeStep ==
    /\ pc = "fr_merge"
    /\ FindrefFrame
    /\ midx <= Len(hits)
    /\ LET nxt == hits[midx]
       IN  IF Close(nxt, cur, gap)
           THEN \* cur is a shallow copy: cur["sentences"] is the very list of
                \* the hit it was copied from, so extend() changes that hit too
                LET merged == cur.sentences \o nxt.sentences
                IN  /\ cur' = [cur EXCEPT !.end = Max(cur.end, nxt.end),
                                          !.sentences = merged]
                    /\ hits' = [hits EXCEPT ![curSeed].sentences = merged]
                    /\ curMembers' = curMembers \cup {midx}
                    /\ UNCHANGED <<curSeed, out, outMembers>>
           ELSE /\ out' = Append(out, cur)
                /\ outMembers' = Append(outMembers, curMembers)
                /\ cur' = nxt
                /\ curSeed' = midx
                /\ curMembers' = {midx}
                /\ UNCHANGED hits
    /\ midx' = midx + 1
    /\ UNCHANGED <<pc, log, inputVars, fidx, S, written>>

\* out.append(cur) after the loop
FrMergeEnd ==
    /\ pc = "fr_merge"
    /\ FindrefFrame
    /\ midx > Len(hits)
    /\ out' = Append(out, cur)
    /\ outMembers' = Append(outMembers, curMembers)
    /\ pc' = "fr_write"
    /\ UNCHANGED <<log, inputVars, fidx, S, hits, cur, curSeed, curMembers,
                   midx, written>>

\* json.dump(out, ...)
FrWrite ==
    /\ pc = "fr_write"
    /\ FindrefFrame
    /\ written' = out
    /\ pc' = "done"
    /\ UNCHANGED <<log, inputVars, fidx, findrefVars>>

NextFindref ==
    \/ FrStart
    \/ FrFile
    \/ FrSort
    \/ FrMergeStep
    \/ FrMergeEnd
    \/ FrWrite

SpecFindref == InitFindref /\ [][NextFindref]_vars

----------------------------------------------------------------------------
(* config_transcribe.py, "findref copy": span matcher with proximity groups *)

\* the -t paragraphs a run may be given (<<>>: no -t at all)
CopyTextChoices == {<<>>, <<Str_bb_b>>, <<Str_pad_b>>}

\* the sentence_spans lists an entry may carry, over the text "b.b. b."
SpanLists == {<<<<4, 7>>>>,
              <<<<0, 2>>, <<5, 7>>>>,
              <<<<0, 4>>, <<0, 2>>, <<4, 7>>>>}

EntryStarts == {0, 3}

\* "end" of a transcript entry (read by "findref single" only)
EntryEnd(st) == st + 3

\* the transcript entries a file may hold: well-formed ones, one without
\* "start" and one without "text"
TranscriptEntries ==
    {[text |-> Str_bb_b, start |-> st, end |-> EntryEnd(st), sentence_spans |-> sp] :
        st \in EntryStarts, sp \in SpanLists}
    \cup {[text |-> Str_bb_b, end |-> 3, sentence_spans |-> <<<<0, 4>>>>]}
    \cup {[start |-> 0, end |-> 3, sentence_spans |-> <<<<0, 4>>>>]}

\* the ASR collaborator writes the segments of a transcript in time order,
\* no two starting at the same time
Chronological(data) ==
    \A i \in 1..Len(data) : \A j \in (i+1)..Len(data) :
        ("start" \in DOMAIN data[i] /\ "start" \in DOMAIN data[j])
        => data[i].start < data[j].start

\* a transcript file named on the command line: parsed, missing, or not JSON
TranscriptFiles ==
    {[status |-> "ok", data |-> d] :
        d \in {q \in SeqsUpTo(TranscriptEntries, MaxSegments) : Chronological(q)}}
    \cup {[status |-> "missing", data |-> <<>>], [status |-> "invalid", data |-> <<>>]}

\* entry.get(key, default)
Get(entry, key, default) == IF key \in DOMAIN entry THEN entry[key] ELSE default

\* "start": entry_start + start_off
MatchStart(entry_start, start_off) == entry_start + start_off

\* "end": entry_start + end_off
MatchEnd(entry_start, end_off) == entry_start + end_off

\* the loop over the spans of one entry: the matches with absolute timestamps
RECURSIVE SpanMatches(_, _, _, _)
SpanMatches(spans, txt, entry_start, set) ==
    IF spans = <<>> THEN <<>>
    ELSE LET start_off == Head(spans)[1]
             end_off   == Head(spans)[2]
             s         == Strip(Slice(txt, start_off, end_off))
         IN  (IF s \in set
              THEN <<[sentence |-> s,
                      start    |-> MatchStart(entry_start, start_off),
                      end      |-> MatchEnd(entry_start, end_off)]>>
              ELSE <<>>)
             \o SpanMatches(Tail(spans), txt, entry_start, set)

\* m["start"] - current[-1]["end"] <= ROUNDNESS_MS
CloseToLast(m, current, thr) == m.start - current[Len(current)].end <= thr

\* the sweep: grouped and current after the matches ms have been read
RECURSIVE Sweep(_, _, _, _)
Sweep(ms, current, grouped, thr) ==
    IF ms = <<>> THEN Append(grouped, current)
    ELSE IF CloseToLast(Head(ms), current, thr)
         THEN Sweep(Tail(ms), Append(current, Head(ms)), grouped, thr)
         ELSE Sweep(Tail(ms), <<Head(ms)>>, Append(grouped, current), thr)

\* matches.sort(key=start); grouped = the proximity groups of the matches
GroupMatches(sorted, thr) ==
    IF sorted = <<>> THEN <<>> ELSE Sweep(Tail(sorted), <<sorted[1]>>, <<>>, thr)

\* one result record per group
GroupResult(grp, id) ==
    [folder    |-> id.folder,
     file      |-> id.file,
     start     |-> grp[1].start,
     end       |-> grp[Len(grp)].end,
     sentences |-> [k \in 1..Len(grp) |-> grp[k].sentence]]

CopyFrame == UNCHANGED <<slicerVars, findrefVars>>

InitFindrefCopy ==
    /\ SlicerIdle
    /\ FindrefIdle
    /\ pc = "fc_start"
    /\ log = <<>>
    /\ json_files \in SeqsUpTo(TranscriptFiles, MaxFiles)
    /\ text \in CopyTextChoices
    /\ gap \in GapChoices
    /\ fidx = 1
    /\ written = "none"
    /\ CopyIdle

\* 1) collect the JSON files, 2) break the paragraphs into sentences
FcStart ==
    /\ pc = "fc_start"
    /\ CopyFrame
    /\ LET sents == AllSentences(text)
       IN  /\ sentences' = IF json_files = <<>> THEN sentences ELSE sents
           /\ pc' = IF json_files = <<>> \/ sents = <<>> THEN "done" ELSE "fc_files"
           /\ log' = IF json_files = <<>>
                     THEN Append(log, [msg |-> "No JSON files to process"])
                     ELSE IF sents = <<>>
                          THEN Append(log, [msg |-> "No sentences provided"])
                          ELSE log
    /\ UNCHANGED <<inputVars, fidx, written, eidx, results, sweeps>>

\* 3) one iteration of "for json_file in json_files": open and parse
FcFile ==
    /\ pc = "fc_files"
    /\ CopyFrame
    /\ fidx <= Len(json_files)
    /\ IF json_files[fidx].status # "ok"
       THEN /\ log' = Append(log, [msg |-> "Warning: Cannot read", file |-> fidx])
            /\ fidx' = fidx + 1
            /\ UNCHANGED <<pc, eidx>>
       ELSE /\ pc' = "fc_entries"
            /\ eidx' = 1
            /\ UNCHANGED <<log, fidx>>
    /\ UNCHANGED <<inputVars, written, sentences, results, sweeps>>

\* one iteration of "for entry in data": match, group, emit
FcEntry ==
    /\ pc = "fc_entries"
    /\ CopyFrame
    /\ eidx <= Len(json_files[fidx].data)
    /\ LET entry       == json_files[fidx].data[eidx]
           txt         == Get(entry, "text", <<>>)
           spans       == Get(entry, "sentence_spans", <<>>)
       IN  IF "start" \notin DOMAIN entry
           THEN /\ log' = Append(log, [msg |-> "Warning: Entry missing 'start'",
                                       file |-> fidx, entry |-> eidx])
                /\ UNCHANGED <<results, sweeps>>
           ELSE LET matches == SortByStart(
                                   SpanMatches(spans, txt, entry.start, Range(sentences)))
                    grouped == GroupMatches(matches, gap)
                IN  /\ results' = results \o
                          [k \in 1..Len(grouped) |-> GroupResult(grouped[k], FileNames[fidx])]
                    /\ sweeps' = Append(sweeps, [file |-> fidx, entry |-> eidx,
                                                 matches |-> matches,
                                                 grouped |-> grouped])
                    /\ UNCHANGED log
    /\ eidx' = eidx + 1
    /\ UNCHANGED <<pc, inputVars, fidx, written, sentences>>

\* the entries of the file are exhausted
FcFileDone ==
    /\ pc = "fc_entries"
    /\ CopyFrame
    /\ eidx > Len(json_files[fidx].data)
    /\ fidx' = fidx + 1
    /\ pc' = "fc_files"
    /\ UNCHANGED <<log, inputVars, written, copyVars>>

\* 4) write output
FcWrite ==
    /\ pc = "fc_files"
    /\ CopyFrame
    /\ fidx > Len(json_files)
    /\ IF results # <<>>
       THEN /\ written' = results
            /\ UNCHANGED log
       ELSE /\ log' = Append(log, [msg |-> "No matches found"])
            /\ UNCHANGED written
    /\ pc' = "done"
    /\ UNCHANGED <<inputVars, fidx, copyVars>>

NextFindrefCopy ==
    \/ FcStart
    \/ FcFile
    \/ FcEntry
    \/ FcFileDone
    \/ FcWrite

SpecFindrefCopy == InitFindrefCopy /\ [][NextFindrefCopy]_vars

----------------------------------------------------------------------------
(* config_transcribe.py, "findref single": span matcher, one result per entry *)

\* the -t arguments a run may be given (<<>>: no -t at all)
SingleTextChoices == {<<>>, <<Str_pad_b>>, <<Str_b_bar_bb>>}

\* t.split("|"): piece holds the characters read since the last bar
RECURSIVE SplitOnBar(_, _)
SplitOnBar(t, piece) ==
    IF t = <<>> THEN <<piece>>
    ELSE IF Head(t) = "|" THEN <<piece>> \o SplitOnBar(Tail(t), <<>>)
         ELSE SplitOnBar(Tail(t), Append(piece, Head(t)))

RECURSIVE StripNonBlank(_)
StripNonBlank(ps) ==
    IF ps = <<>> THEN <<>>
    ELSE IF Strip(Head(ps)) = <<>> THEN StripNonBlank(Tail(ps))
         ELSE <<Strip(Head(ps))>> \o StripNonBlank(Tail(ps))

\* for t in args.text or []: sentences.extend(s.strip() for s in t.split("|") if s.strip())
RECURSIVE BarSentences(_)
BarSentences(args) ==
    IF args = <<>> THEN <<>>
    ELSE StripNonBlank(SplitOnBar(Head(args), <<>>)) \o BarSentences(Tail(args))

\* matching_sentences: the trimmed span texts that are query sentences
RECURSIVE MatchingSentences(_, _, _)
MatchingSentences(spans, txt, set) ==
    IF spans = <<>> THEN <<>>
    ELSE LET sentence == Strip(Slice(txt, Head(spans)[1], Head(spans)[2]))
         IN  (IF sentence \in set THEN <<sentence>> ELSE <<>>)
             \o MatchingSentences(Tail(spans), txt, set)

\* the loop over the entries of one file inside the try block: the results
\* appended, and whether a KeyError (no "text", "start" or "end") ended it
RECURSIVE ScanEntries(_, _, _, _)
ScanEntries(data, id, set, acc) ==
    IF data = <<>> THEN [results |-> acc, keyerror |-> FALSE]
    ELSE LET entry == Head(data)
         IN  IF ~({"text", "start", "end"} \subseteq DOMAIN entry)
             THEN [results |-> acc, keyerror |-> TRUE]
             ELSE LET matching_sentences ==
                          MatchingSentences(Get(entry, "sentence_spans", <<>>),
                                            entry.text, set)
                  IN  ScanEntries(Tail(data), id, set,
                          IF matching_sentences = <<>> THEN acc
                          ELSE Append(acc, [folder    |-> id.folder,
                                            file      |-> id.file,
                                            start     |-> entry.start,
                                            end       |-> entry.end,
                                            sentences |-> matching_sentences]))

InitFindrefSingle ==
    /\ SlicerIdle
    /\ FindrefIdle
    /\ pc = "fs_start"
    /\ log = <<>>
    /\ json_files \in SeqsUpTo(TranscriptFiles, MaxFiles)
    /\ text \in SingleTextChoices
    /\ gap = 0
    /\ fidx = 1
    /\ written = "none"
    /\ CopyIdle

\* collect the JSON files; process the sentences to find
FsStart ==
    /\ pc = "fs_start"
    /\ CopyFrame
    /\ LET sents == BarSentences(text)
       IN  /\ sentences' = IF json_files = <<>> THEN sentences ELSE sents
           /\ pc' = IF json_files = <<>> \/ sents = <<>> THEN "done" ELSE "fs_files"
           /\ log' = IF json_files = <<>>
                     THEN Append(log, [msg |-> "No JSON files to process"])
                     ELSE IF sents = <<>>
                          THEN Append(log, [msg |-> "No sentences provided"])
                          ELSE log
    /\ UNCHANGED <<inputVars, fidx, written, eidx, results, sweeps>>

\* one iteration of "for json_file in json_files": the whole try block
FsFile ==
    /\ pc = "fs_files"
    /\ CopyFrame
    /\ fidx <= Len(json_files)
    /\ LET f == json_files[fidx]
           r == ScanEntries(f.data, FileNames[fidx], Range(sentences), results)
       IN  CASE f.status = "missing" ->
                  /\ log' = Append(log, [msg |-> "Warning: File not found", file |-> fidx])
                  /\ UNCHANGED results
             [] f.status = "invalid" ->
                  /\ log' = Append(log, [msg |-> "Warning: File is not a valid JSON",
                                         file |-> fidx])
                  /\ UNCHANGED results
             [] OTHER ->
                  /\ results' = r.results
                  /\ log' = IF r.keyerror
                            THEN Append(log, [msg |-> "Warning: File missing required field",
                                              file |-> fidx])
                            ELSE log
    /\ fidx' = fidx + 1
    /\ UNCHANGED <<pc, inputVars, written, sentences, eidx, sweeps>>

\* write the output, or report that nothing matched
FsWrite ==
    /\ pc = "fs_files"
    /\ CopyFrame
    /\ fidx > Len(json_files)
    /\ IF results # <<>>
       THEN /\ written' = results
            /\ UNCHANGED log
       ELSE /\ log' = Append(log, [msg |-> "No matches found"])
            /\ UNCHANGED written
    /\ pc' = "done"
    /\ UNCHANGED <<inputVars, fidx, copyVars>>

NextFindrefSingle ==
    \/ FsStart
    \/ FsFile
    \/ FsWrite

SpecFindrefSingle == InitFindrefSingle /\ [][NextFindrefSingle]_vars

----------------------------------------------------------------------------
(* Properties of slicer.py (checked under SpecSlicer) *)

CutCalls == {i \in 1..Len(calls) : calls[i].op = "cut"}

\* entries i < j of the same folder with no entry of that folder between them
ConsecutiveSameSource(i, j) ==
    /\ i < j
    /\ entries[i].folder = entries[j].folder
    /\ \A k \in (i+1)..(j-1) : entries[k].folder # entries[i].folder

\* C1: padding non-overlap.  For two consecutive entries of the same source
\* whose raw gap next.start - prev.end is >= 0, the padded interval cut for
\* the first ends no later than the padded interval cut for the second
\* starts (prev.ce <= next.cs).
C1_PaddedCutsDisjoint ==
    \A a \in CutCalls : \A b \in CutCalls :
        ( /\ ConsecutiveSameSource(calls[a].entry, calls[b].entry)
          /\ calls[a].ok /\ calls[b].ok
          /\ entries[calls[a].entry].end <= entries[calls[b].entry].start )
        => calls[a].ce <= calls[b].cs

\* C2: temporary workspace release.  In every terminal state of a run that
\* created the temporary workspace, the workspace has been deleted.
C2_WorkspaceReleased ==
    (pc \in SlicerTerminal /\ tmp # "none") => tmp = "removed"

\* C6: zero floor.  The start timestamp of every cut invocation is >= 0.
C6_CutStartNonNegative ==
    \A i \in CutCalls : calls[i].cs >= 0

\* a cut was taken from an entry that starts closer to 0 than the half
\* padding, and its start was clamped to 0
C6_Witness ==
    \E i \in CutCalls :
        /\ entries[calls[i].entry].start < HalfSil(silence)
        /\ calls[i].cs = 0

C9_MissingSourceSkipped ==
    \A i \in 1..Len(calls) :
        calls[i].op \in {"cut", "keyframes"} => calls[i].orig \in present

----------------------------------------------------------------------------
(* Properties of findref.py (checked under SpecFindref) *)

\* C3: source isolation in grouping.  Every hit merged into a closed group
\* has the folder and the file of the group itself.
C3_GroupsHoldOneSource ==
    \A g \in 1..Len(out) : \A m \in outMembers[g] :
        /\ hits[m].folder = out[g].folder
        /\ hits[m].file = out[g].file

\* a segment that findref.py can read in full: it has text, start and end
WellFormedSegment(seg) == {"text", "start", "end"} \subseteq DOMAIN seg

\* C10: malformed input is recoverable.  A transcript file that is not valid
\* JSON, or a segment that lacks a field, does not abort the run; and when
\* the run is done, every well-formed segment of a valid file that contains
\* a query sentence lies inside an emitted group of its time range.
C10_MalformedInputRecoverable ==
    /\ json_files # <<>> => pc # "crashed"
    /\ pc = "done" =>
          \A i \in 1..Len(json_files) : \A k \in 1..Len(json_files[i].data) :
              LET seg == json_files[i].data[k]
              IN  ( /\ json_files[i].status = "ok"
                    /\ WellFormedSegment(seg)
                    /\ Found(S, seg.text) # <<>> )
                  => \E g \in 1..Len(written) :
                        /\ written[g].start <= seg.start
                        /\ seg.end <= written[g].end

----------------------------------------------------------------------------
(* Properties of "findref copy" (checked under SpecFindrefCopy) *)

\* C4: sorting invariant.  Two results of the same source are strictly
\* increasing by start and do not overlap, in the order emitted, and the
\* result list as a whole is sorted by start.
C4_ResultsSortedDisjoint ==
    \A i \in 1..Len(results) : \A j \in (i+1)..Len(results) :
        /\ results[i].start <= results[j].start
        /\ ( results[i].folder = results[j].folder /\ results[i].file = results[j].file )
           => ( /\ results[i].start < results[j].start
                /\ results[i].end <= results[j].start )

MaxEnd(grp) == CHOOSE e \in {grp[k].end : k \in 1..Len(grp)} :
                   \A k \in 1..Len(grp) : grp[k].end <= e

\* the merge rule as claimed: m joins the current group iff m.start minus
\* the largest end of the members merged so far is <= the threshold
RECURSIVE ClaimedSweep(_, _, _, _)
ClaimedSweep(ms, current, grouped, thr) ==
    IF ms = <<>> THEN Append(grouped, current)
    ELSE IF Head(ms).start - MaxEnd(current) <= thr
         THEN ClaimedSweep(Tail(ms), Append(current, Head(ms)), grouped, thr)
         ELSE ClaimedSweep(Tail(ms), <<Head(ms)>>, Append(grouped, current), thr)

\* C5: proximity merge rule.  For every entry swept, the groups built are
\* those of the single left-to-right sweep in which a match joins the
\* current group iff its start minus the current group's end (the maximum
\* end of the members merged so far) is <= the threshold.
C5_MergeRule ==
    \A k \in 1..Len(sweeps) :
        sweeps[k].matches # <<>> =>
            sweeps[k].grouped =
                ClaimedSweep(Tail(sweeps[k].matches), <<sweeps[k].matches[1]>>, <<>>, gap)

----------------------------------------------------------------------------
(* Properties of "findref single" (checked under SpecFindrefSingle) *)

\* C7: offset-exact matching.  When the run is done, for every entry of a
\* readable file whose entries all have text, start and end, and for every
\* span of it whose trimmed text is a query sentence, a result with
\* start = entry.start + o1 and end = entry.start + o2 was emitted; and no
\* result carries a sentence that is not a query sentence.
C7_OffsetExactMatches ==
    /\ \A r \in 1..Len(results) : \A n \in 1..Len(results[r].sentences) :
          results[r].sentences[n] \in Range(sentences)
    /\ pc = "done" /\ sentences # <<>> =>
          \A i \in 1..Len(json_files) :
              ( /\ json_files[i].status = "ok"
                /\ \A k \in 1..Len(json_files[i].data) :
                      {"text", "start", "end"} \subseteq DOMAIN json_files[i].data[k] )
              => \A k \in 1..Len(json_files[i].data) :
                    LET entry == json_files[i].data[k]
                        spans == Get(entry, "sentence_spans", <<>>)
                    IN  \A n \in 1..Len(spans) :
                            Strip(Slice(entry.text, spans[n][1], spans[n][2]))
                                \in Range(sentences)
                            => \E r \in 1..Len(results) :
                                  /\ results[r].file = FileNames[i].file
                                  /\ results[r].start = entry.start + spans[n][1]
                                  /\ results[r].end = entry.start + spans[n][2]

----------------------------------------------------------------------------
(* Further properties of "findref copy" (checked under SpecFindrefCopy) *)

MinStart(grp) == CHOOSE b \in {grp[k].start : k \in 1..Len(grp)} :
                     \A k \in 1..Len(grp) : b <= grp[k].start

\* the number of groups emitted by the first k sweeps: the groups of sweep
\* k+1 are the results that follow them
RECURSIVE GroupsBefore(_)
GroupsBefore(k) == IF k = 0 THEN 0 ELSE GroupsBefore(k - 1) + Len(sweeps[k].grouped)

\* C11: group extents.  Every emitted result has start equal to the smallest
\* start and end equal to the largest end of the matches of its group,
\* nested and overlapping matches included.
C11_GroupExtents ==
    \A k \in 1..Len(sweeps) : \A g \in 1..Len(sweeps[k].grouped) :
        LET r   == results[GroupsBefore(k - 1) + g]
            grp == sweeps[k].grouped[g]
        IN  /\ r.start = MinStart(grp)
            /\ r.end = MaxEnd(grp)

----------------------------------------------------------------------------
(* Further properties of slicer.py (checked under SpecSlicer) *)

KeyframeCalls == {i \in 1..Len(calls) : calls[i].op = "keyframes"}

\* C12: keyframe forcing covers every cut boundary.  No source is re-encoded
\* twice, and every cut from a source video that exists is preceded by a
\* successful re-encoding of that source whose forced-keyframe times hold
\* both the start and the end passed to the cut.
C12_KeyframesCoverCuts ==
    /\ \A a \in KeyframeCalls : \A b \in KeyframeCalls :
          calls[a].src = calls[b].src => a = b
    /\ \A c \in CutCalls :
          calls[c].orig \in present =>
          \E k \in KeyframeCalls :
              /\ k < c
              /\ calls[k].ok
              /\ calls[k].src = calls[c].orig
              /\ calls[c].cs \in calls[k].times
              /\ calls[c].ce \in calls[k].times

\* C13: output ordering.  The clips handed to the concat invocation are in
\* ascending order of the start of the entry each was cut from.
C13_ConcatInStartOrder ==
    \A c \in 1..Len(calls) :
        calls[c].op = "concat" =>
            \A i \in 1..Len(calls[c].list) : \A j \in (i+1)..Len(calls[c].list) :
                entries[calls[c].list[i] + 1].start <= entries[calls[c].list[j] + 1].start

----------------------------------------------------------------------------
(* Further properties of findref.py (checked under SpecFindref) *)

\* the hits appended by the loop over the first n files, when no file of
\* them ends the run
RECURSIVE ScannedHits(_)
ScannedHits(n) ==
    IF n = 0 THEN <<>>
    ELSE ScanSegments(json_files[n].data, FileNames[n], S, ScannedHits(n - 1)).hits

\* C14: the grouper does not mutate its input.  During and after the sweep
\* every hit (its start, end and sentences) is as it was when the sweep
\* began, that is, as the sorted list of the hits found in the files.
C14_SweepLeavesHitsAlone ==
    pc \in {"fr_merge", "fr_write", "done"} =>
        hits = SortByStart(ScannedHits(Len(json_files)))

====
